---- MODULE Spec2Model ----
(***************************************************************************)
(* Fish Counter Review (app/streamlit_app.py): the SQLite store (events,   *)
(* event_status, counts), the reconciliation of parsed log rows with the   *)
(* indexed video clips, and the Streamlit review session that reads and    *)
(* writes the store.                                                       *)
(*                                                                         *)
(* Text is modelled as a sequence of one-character strings, so that        *)
(* strip(), isdigit(), lstrip("0"), GLOB, CAST(.. AS INTEGER) and the      *)
(* BINARY collation are computed character by character.  A nullable SQL   *)
(* or Python value is <<>> (NULL / None) or <<v>>.                         *)
(***************************************************************************)
EXTENDS Integers, Sequences, FiniteSets, TLC

VARIABLES
    db,     \* the committed content of fishcounter.sqlite
    conn,   \* the table contents seen through the connection of the last script run
    ss,     \* st.session_state
    last,   \* the last handler that ran, with its arguments and outcome
    arg,    \* input of the pure function under study
    res     \* its results, in order of application

vars == <<db, conn, ss, last, arg, res>>

(***************************************************************************)
(* Bounds.                                                                 *)
(***************************************************************************)
MaxIdLen == 3       \* longest identifier given to _normalize_event_id
NumEvents == 2      \* event ids that occur in the logs of the review session
NumSpecies == 1     \* entries of the categories list
NumMovements == 2   \* movement options the operator uses
NumNotes == 1       \* non-empty notes texts the operator types
NumTimes == 1       \* readings of datetime.now()
MaxCount == 1       \* the operator stops adding to a key at this count
MaxActions == 2     \* ... and stops adding at this many undoable additions
MaxBatch == 2       \* rows of a parsed log given to the reconciliation
MaxWalk == 2        \* mp4 files found under the video index root
NumNavIds == 5      \* event ids of the stores whose listings are compared
MaxLines == 3       \* lines of a log given to parse_log
MaxReloads == 2     \* calls of upsert_events in a row

(***************************************************************************)
(* Text.                                                                   *)
(***************************************************************************)
NULL == <<>>
Some(v) == <<v>>
IsNull(o) == o = <<>>
Val(o) == o[1]

\* The characters that occur, in code-point (BINARY collation) order.
CharOrder ==
    <<" ", "#", "+", "-", ".", "0", "1", "2", "3", "4", "5", "6", "7", "8", "9",
      ":", ";", "D", "F", "I", "[", "]", "a", "b", "c", "d", "e", "h", "i", "m",
      "n", "r", "s", "t", "u", "v", "w", "x">>
Chars == {CharOrder[i] : i \in 1..Len(CharOrder)}
Ord(c) == CHOOSE i \in 1..Len(CharOrder) : CharOrder[i] = c

DigitValue(c) ==
    CASE c = "0" -> 0 [] c = "1" -> 1 [] c = "2" -> 2 [] c = "3" -> 3
      [] c = "4" -> 4 [] c = "5" -> 5 [] c = "6" -> 6 [] c = "7" -> 7
      [] c = "8" -> 8 [] c = "9" -> 9
DigitChars == {"0", "1", "2", "3", "4", "5", "6", "7", "8", "9"}
IsSpace(c) == c = " "

\* str.isdigit(): non-empty and every character a digit.
IsDigit(s) == Len(s) > 0 /\ \A i \in 1..Len(s) : s[i] \in DigitChars

RECURSIVE LStripSpace(_)
LStripSpace(s) ==
    IF s # <<>> /\ IsSpace(Head(s)) THEN LStripSpace(Tail(s)) ELSE s

RECURSIVE RStripSpace(_)
RStripSpace(s) ==
    IF s # <<>> /\ IsSpace(s[Len(s)])
    THEN RStripSpace(SubSeq(s, 1, Len(s) - 1))
    ELSE s

\* str.strip()
Strip(s) == RStripSpace(LStripSpace(s))

\* str.lstrip("0")
RECURSIVE LStripZero(_)
LStripZero(s) ==
    IF s # <<>> /\ Head(s) = "0" THEN LStripZero(Tail(s)) ELSE s

NormalizeKeepZeros(event_id) == Strip(event_id)

\* _normalize_event_id
NormalizeEventId(event_id) ==
    LET cleaned == Strip(event_id)
    IN  IF IsDigit(cleaned)
        THEN (IF LStripZero(cleaned) = <<>> THEN <<"0">> ELSE LStripZero(cleaned))
        ELSE cleaned

\* BINARY collation on text: a < b, compared by code point, a prefix first.
RECURSIVE TextLess(_, _)
TextLess(a, b) ==
    IF b = <<>> THEN FALSE
    ELSE IF a = <<>> THEN TRUE
    ELSE IF Head(a) # Head(b) THEN Ord(Head(a)) < Ord(Head(b))
    ELSE TextLess(Tail(a), Tail(b))

\* The value of the longest leading run of digits of s, 0 when there is none.
RECURSIVE DigitPrefixValue(_, _)
DigitPrefixValue(s, acc) ==
    IF s # <<>> /\ Head(s) \in DigitChars
    THEN DigitPrefixValue(Tail(s), 10 * acc + DigitValue(Head(s)))
    ELSE acc

\* SQLite CAST(text AS INTEGER): leading blanks skipped, an optional sign, then
\* the longest prefix of digits; the rest of the text is ignored.
CastInteger(s) ==
    LET t == LStripSpace(s)
    IN  IF t # <<>> /\ Head(t) = "-"
        THEN 0 - DigitPrefixValue(Tail(t), 0)
        ELSE DigitPrefixValue(t, 0)

\* event_id GLOB '[0-9]*': one digit, then anything.
GlobDigitStar(s) == s # <<>> /\ Head(s) \in DigitChars

(***************************************************************************)
(* The store.  A table is a function from its primary key to a row; a row  *)
(* is a record over the columns the table has on disk.                     *)
(***************************************************************************)
EventCols == {"ts", "raw_dir", "m1", "m2", "m3", "video_abs", "video_rel", "has_video"}
StatusCols == {"false_trigger", "notes", "reviewed_at"}

\* The default a column added by ALTER TABLE gives the rows that exist.
ColumnDefault(col) ==
    IF col \in {"has_video", "false_trigger"} THEN Some(0) ELSE NULL

EmptyFcn == [x \in {} |-> NULL]
Put(f, k, v) == [x \in DOMAIN f \cup {k} |-> IF x = k THEN v ELSE f[x]]
Restrict(f, S) == [x \in S |-> f[x]]

\* No file on disk yet.
NoStore ==
    [exists |-> FALSE, events_cols |-> {}, status_cols |-> {},
     events |-> EmptyFcn, status |-> EmptyFcn, counts |-> EmptyFcn]

\* SCHEMA_SQL: CREATE TABLE IF NOT EXISTS
SchemaSql(d) ==
    IF d.exists THEN d
    ELSE [NoStore EXCEPT !.exists = TRUE,
                         !.events_cols = EventCols,
                         !.status_cols = StatusCols]

\* An ALTER TABLE that rebuilds the rows from the column defaults.
AddColumnRebuild(row, col) ==
    [c \in DOMAIN row \cup {col} |-> ColumnDefault(c)]

\* ALTER TABLE ... ADD COLUMN: the rows that exist get the column's default.
AddColumn(row, col) ==
    [c \in DOMAIN row \cup {col} |-> IF c \in DOMAIN row THEN row[c] ELSE ColumnDefault(col)]

\* _add_column_if_missing, for every required column of a table
RECURSIVE AddColumnsIfMissing(_, _, _)
AddColumnsIfMissing(table, cols, required) ==
    IF required \subseteq cols THEN table
    ELSE LET col == CHOOSE c \in required : c \notin cols
         IN  AddColumnsIfMissing([k \in DOMAIN table |-> AddColumn(table[k], col)],
                                 cols \cup {col}, required)

\* _migrate_schema
MigrateSchema(d) ==
    [d EXCEPT !.events = AddColumnsIfMissing(d.events, d.events_cols, EventCols),
              !.events_cols = d.events_cols \cup EventCols,
              !.status = AddColumnsIfMissing(d.status, d.status_cols, StatusCols),
              !.status_cols = d.status_cols \cup StatusCols]

\* A migration that also gives every event without a status row a default one.
MigratedWithStatusRows(d) ==
    [MigrateSchema(SchemaSql(d)) EXCEPT
        !.status = [e \in DOMAIN d.events |->
                       IF e \in DOMAIN d.status
                       THEN MigrateSchema(SchemaSql(d)).status[e]
                       ELSE [false_trigger |-> Some(0), notes |-> NULL,
                             reviewed_at |-> NULL]]]

\* The file after connect_db ran on it.
Migrated(d) == MigrateSchema(SchemaSql(d))

\* sqlite3.connect: what a new connection sees is the content of the file.
Connection(m) ==
    [events |-> m.events, status |-> m.status, counts |-> m.counts, in_txn |-> FALSE]

\* connect_db: a new connection, with no open transaction, on the migrated file.
ConnectDb(d) == Connection(Migrated(d))

\* conn.commit(): what the connection sees becomes the content of the file.
Commit(d, c) ==
    [d EXCEPT !.events = c.events, !.status = c.status, !.counts = c.counts]

EventRow(r) ==
    [ts |-> r.ts, raw_dir |-> r.raw_dir, m1 |-> r.m1, m2 |-> r.m2, m3 |-> r.m3,
     video_abs |-> r.video_abs, video_rel |-> r.video_rel, has_video |-> r.has_video]

\* upsert_events written with INSERT OR REPLACE: the row in conflict is deleted
\* first, and ON DELETE CASCADE takes its status and count rows with it.
RECURSIVE UpsertEventsReplace(_, _)
UpsertEventsReplace(c, rows) ==
    IF rows = <<>> THEN c
    ELSE LET e == Head(rows).event_id
         IN  UpsertEventsReplace(
                [c EXCEPT !.events = Put(c.events, e, EventRow(Head(rows))),
                          !.status = Restrict(c.status, DOMAIN c.status \ {e}),
                          !.counts = Restrict(c.counts,
                                              {x \in DOMAIN c.counts : x[1] # e}),
                          !.in_txn = TRUE],
                Tail(rows))

\* upsert_events written with ON CONFLICT DO NOTHING: a stored row stays.
RECURSIVE UpsertEventsIgnore(_, _)
UpsertEventsIgnore(c, rows) ==
    IF rows = <<>> THEN c
    ELSE UpsertEventsIgnore(
            IF Head(rows).event_id \in DOMAIN c.events THEN c
            ELSE [c EXCEPT !.events = Put(c.events, Head(rows).event_id,
                                          EventRow(Head(rows))),
                           !.in_txn = TRUE],
            Tail(rows))

\* upsert_events, the statements before the commit: INSERT .. ON CONFLICT(event_id)
\* DO UPDATE, one row after the other.
RECURSIVE UpsertEvents(_, _)
UpsertEvents(c, rows) ==
    IF rows = <<>> THEN c
    ELSE UpsertEvents([c EXCEPT !.events = Put(c.events, Head(rows).event_id,
                                                EventRow(Head(rows))),
                                !.in_txn = TRUE],
                      Tail(rows))

\* get_event
GetEvent(c, event_id) ==
    IF event_id \in DOMAIN c.events THEN Some(c.events[event_id]) ELSE NULL

\* load_counts
LoadCounts(c, event_id) ==
    [k \in {<<x[2], x[3]>> : x \in {y \in DOMAIN c.counts : y[1] = event_id}}
        |-> c.counts[<<event_id, k[1], k[2]>>]]

DefaultStatus == [false_trigger |-> 0, notes |-> "", reviewed_at |-> NULL]

\* load_status
LoadStatus(c, event_id) ==
    IF event_id \notin DOMAIN c.status THEN DefaultStatus
    ELSE LET r == c.status[event_id]
         IN  [false_trigger |-> IF IsNull(r.false_trigger) THEN 0 ELSE Val(r.false_trigger),
              notes |-> IF IsNull(r.notes) THEN "" ELSE Val(r.notes),
              reviewed_at |-> r.reviewed_at]

\* save_event without its DELETE: the new rows are merged into the old ones.
DeleteCountsNone(c, event_id) == [c EXCEPT !.in_txn = TRUE]

\* save_event, first statement: DELETE FROM counts WHERE event_id=?
DeleteCounts(c, event_id) ==
    [c EXCEPT !.counts = Restrict(c.counts, {x \in DOMAIN c.counts : x[1] # event_id}),
              !.in_txn = TRUE]

\* The rows of save_event without the filter on the count.
CountRowsAll(event_id, counts) ==
    {<<event_id, k[1], k[2]>> : k \in DOMAIN counts}

\* save_event: the rows built from the in-memory tally, "if int(ct) > 0"
CountRows(event_id, counts) ==
    {<<event_id, k[1], k[2]>> : k \in {j \in DOMAIN counts : counts[j] > 0}}

\* save_event, second statement: INSERT INTO counts, when there are rows
InsertCounts(c, event_id, counts) ==
    LET rows == CountRows(event_id, counts)
    IN  [c EXCEPT !.counts = [x \in DOMAIN c.counts \cup rows |->
                                 IF x \in rows THEN counts[<<x[2], x[3]>>]
                                 ELSE c.counts[x]],
                  !.in_txn = TRUE]

\* A status upsert that stores no reviewed_at.
UpsertStatusNoTime(c, event_id, notes, false_trigger, reviewed_at) ==
    [c EXCEPT !.status = Put(c.status, event_id,
                             [false_trigger |-> Some(false_trigger),
                              notes |-> Some(notes),
                              reviewed_at |-> NULL]),
              !.in_txn = TRUE]

\* A status upsert that takes the reviewed_at away from an event that has one.
UpsertStatusToggle(c, event_id, notes, false_trigger, reviewed_at) ==
    [c EXCEPT !.status = Put(c.status, event_id,
                             [false_trigger |-> Some(false_trigger),
                              notes |-> Some(notes),
                              reviewed_at |->
                                  IF /\ event_id \in DOMAIN c.status
                                     /\ ~IsNull(c.status[event_id].reviewed_at)
                                  THEN NULL ELSE Some(reviewed_at)]),
              !.in_txn = TRUE]

\* save_event, third statement: INSERT INTO event_status .. ON CONFLICT DO UPDATE
UpsertStatus(c, event_id, notes, false_trigger, reviewed_at) ==
    [c EXCEPT !.status = Put(c.status, event_id,
                             [false_trigger |-> Some(false_trigger),
                              notes |-> Some(notes),
                              reviewed_at |-> Some(reviewed_at)]),
              !.in_txn = TRUE]

\* Where a statement of save_event may raise: nowhere, after the DELETE ran, or
\* after the INSERT of the count rows ran; both are before the status upsert.
FailPoints == {"none", "after_delete", "after_insert"}

\* save_event: the connection as the call leaves it.  No statement of it rolls
\* back, so what ran before an exception stays in the open transaction.
SaveEvent(c, event_id, counts, notes, false_trigger, reviewed_at, fail) ==
    LET c1 == DeleteCounts(c, event_id)
        c2 == InsertCounts(c1, event_id, counts)
        c3 == UpsertStatus(c2, event_id, notes, false_trigger, reviewed_at)
    IN  CASE fail = "after_delete" -> c1
          [] fail = "after_insert" -> c2
          [] OTHER -> [c3 EXCEPT !.in_txn = FALSE]

(***************************************************************************)
(* Listings.                                                               *)
(***************************************************************************)
\* CASE WHEN event_id GLOB '[0-9]*' THEN CAST(event_id AS INTEGER) END
NumericKey(event_id) ==
    IF GlobDigitStar(event_id) THEN Some(CastInteger(event_id)) ELSE NULL

\* The listing ordered by the event id alone, the timestamp left out.
OrderLessIdOnly(c, a, b) ==
    LET ka == NumericKey(a)
        kb == NumericKey(b)
    IN  IF IsNull(ka) # IsNull(kb) THEN IsNull(ka)
        ELSE IF ka # kb THEN Val(ka) < Val(kb)
        ELSE TextLess(a, b)

\* ORDER BY (e.ts IS NULL) ASC, e.ts ASC, CASE .. END ASC, e.event_id ASC:
\* whether event a is listed before event b.  NULL sorts before every value.
OrderLess(c, a, b) ==
    LET ta == c.events[a].ts
        tb == c.events[b].ts
        ka == NumericKey(a)
        kb == NumericKey(b)
    IN  IF IsNull(ta) # IsNull(tb) THEN IsNull(tb)
        ELSE IF ta # tb THEN TextLess(Val(ta), Val(tb))
        ELSE IF IsNull(ka) # IsNull(kb) THEN IsNull(ka)
        ELSE IF ka # kb THEN Val(ka) < Val(kb)
        ELSE TextLess(a, b)

\* The ids of S in the order of the ORDER BY clause.
RECURSIVE SortIds(_, _)
SortIds(c, S) ==
    IF S = {} THEN <<>>
    ELSE LET m == CHOOSE x \in S : \A y \in S \ {x} : ~OrderLess(c, y, x)
         IN  <<m>> \o SortIds(c, S \ {m})

\* FROM events e LEFT JOIN event_status s ON s.event_id = e.event_id
LeftJoinStatus(c, e) ==
    IF e \in DOMAIN c.status
    THEN c.status[e]
    ELSE [false_trigger |-> NULL, notes |-> NULL, reviewed_at |-> NULL]

\* get_unreviewed_event_ids with JOIN for LEFT JOIN: an event without a status
\* row is not listed.
GetUnreviewedInnerJoin(c) ==
    SortIds(c, {e \in DOMAIN c.events :
                  e \in DOMAIN c.status /\ IsNull(c.status[e].reviewed_at)})

\* get_unreviewed_event_ids
GetUnreviewedEventIds(c) ==
    SortIds(c, {e \in DOMAIN c.events : IsNull(LeftJoinStatus(c, e).reviewed_at)})

\* get_events_overview
GetEventsOverview(c) ==
    LET ids == SortIds(c, DOMAIN c.events)
    IN  [i \in 1..Len(ids) |->
            [event_id |-> ids[i],
             ts |-> c.events[ids[i]].ts,
             video_rel |-> c.events[ids[i]].video_rel,
             has_video |-> c.events[ids[i]].has_video,
             reviewed_at |-> LeftJoinStatus(c, ids[i]).reviewed_at,
             false_trigger |-> LeftJoinStatus(c, ids[i]).false_trigger,
             notes |-> LeftJoinStatus(c, ids[i]).notes]]

\* The WHERE clause of the Back query; a comparison with NULL is not true.
BackWhere(c, e, cur_ts, cur_id) ==
    LET ts == c.events[e].ts
    IN  /\ ~IsNull(ts)
        /\ ~IsNull(cur_ts)
        /\ \/ TextLess(Val(ts), Val(cur_ts))
           \/ ts = cur_ts /\ CastInteger(e) < CastInteger(cur_id)

\* The Back query: the rows SELECT .. ORDER BY ts DESC, CAST(event_id AS INTEGER)
\* DESC LIMIT 1 may return; rows that tie on both keys come in any order.
BackQuery(c, cur_ts, cur_id) ==
    LET cand == {e \in DOMAIN c.events : BackWhere(c, e, cur_ts, cur_id)}
        Before(a, b) ==
            \/ TextLess(Val(c.events[b].ts), Val(c.events[a].ts))
            \/ c.events[a].ts = c.events[b].ts /\ CastInteger(a) > CastInteger(b)
    IN  {e \in cand : \A y \in cand : ~Before(y, e)}

(***************************************************************************)
(* parse_log.  A line of the log is the sequence of its tokens, what        *)
(* raw.strip().split() gives; words within a line are one blank apart.      *)
(***************************************************************************)
\* str.lower() on the letters that occur
LowerChar(c) ==
    CASE c = "D" -> "d" [] c = "F" -> "f" [] c = "I" -> "i" [] OTHER -> c
Lower(s) == [i \in 1..Len(s) |-> LowerChar(s[i])]

DataMarker == <<"[", "d", "a", "t", "a", "]">>

\* A conversion that gives 0 for a text that is no integer.
ParseIntOrZero(s) ==
    IF s # <<>> /\ Head(s) \in {"+", "-"} /\ IsDigit(Tail(s))
    THEN Some(IF Head(s) = "-" THEN 0 - DigitPrefixValue(Tail(s), 0)
              ELSE DigitPrefixValue(Tail(s), 0))
    ELSE IF IsDigit(s) THEN Some(DigitPrefixValue(s, 0))
    ELSE Some(0)

\* int(text): an optional sign and digits; NULL where int() raises ValueError.
ParseInt(s) ==
    IF s # <<>> /\ Head(s) \in {"+", "-"} /\ IsDigit(Tail(s))
    THEN Some(IF Head(s) = "-" THEN 0 - DigitPrefixValue(Tail(s), 0)
              ELSE DigitPrefixValue(Tail(s), 0))
    ELSE IF IsDigit(s) THEN Some(DigitPrefixValue(s, 0))
    ELSE NULL

DigitChar(d) == CHOOSE c \in DigitChars : DigitValue(c) = d

\* str(n) for n >= 0
RECURSIVE DigitsOf(_)
DigitsOf(n) ==
    IF n < 10 THEN <<DigitChar(n)>>
    ELSE Append(DigitsOf(n \div 10), DigitChar(n % 10))

RECURSIVE ZeroPad(_, _)
ZeroPad(s, width) == IF Len(s) >= width THEN s ELSE ZeroPad(<<"0">> \o s, width)

\* f"{n:0<width>d}": zeros go between the sign and the digits
FormatInt(n, width) ==
    IF n < 0 THEN <<"-">> \o ZeroPad(DigitsOf(0 - n), width - 1)
    ELSE ZeroPad(DigitsOf(n), width)

\* \d{4}-\d{2}-\d{2}
IsDateToken(t) ==
    /\ Len(t) = 10
    /\ \A i \in 1..10 : IF i \in {5, 8} THEN t[i] = "-" ELSE t[i] \in DigitChars

\* \d{2}:\d{2}:\d{2}(?:\.\d+)?
IsTimeToken(t) ==
    /\ Len(t) >= 8
    /\ \A i \in 1..8 : IF i \in {3, 6} THEN t[i] = ":" ELSE t[i] \in DigitChars
    /\ Len(t) > 8 => /\ t[9] = "."
                     /\ Len(t) > 9
                     /\ \A i \in 10..Len(t) : t[i] \in DigitChars

NarrativeWords ==
    << <<"-">>, <<"F", "i", "s", "h">>,
       <<"m", "e", "a", "s", "u", "r", "e", "m", "e", "n", "t">>,
       <<"r", "e", "c", "e", "i", "v", "e", "d">>, <<"w", "i", "t", "h">>,
       <<"I", "D">> >>

\* fish_event_re.match(line)
FishEventMatch(parts) ==
    /\ Len(parts) = 9
    /\ IsDateToken(parts[1])
    /\ IsTimeToken(parts[2])
    /\ SubSeq(parts, 3, 8) = NarrativeWords
    /\ IsDigit(parts[9])

\* The row of a narrative line: the ts is the matched text without the
\* fraction of the second (fromisoformat and strftime, or split(".")[0]).
NarrativeRow(parts) ==
    [event_id |-> parts[9],
     ts |-> Some(parts[1] \o <<" ">> \o SubSeq(parts[2], 1, 8)),
     raw_dir |-> Some(<<>>), m1 |-> NULL, m2 |-> NULL, m3 |-> NULL]

\* The row of a columnar line whose month, day, hour and minute are integers.
ColumnarRow(parts, year) ==
    LET both == ~IsNull(ParseInt(parts[2])) /\ ~IsNull(ParseInt(parts[3]))
    IN  [event_id |-> Strip(parts[1]),
         ts |-> Some(FormatInt(year, 4) \o <<"-">>
                     \o FormatInt(Val(ParseInt(parts[4])), 2) \o <<"-">>
                     \o FormatInt(Val(ParseInt(parts[5])), 2) \o <<" ">>
                     \o FormatInt(Val(ParseInt(parts[6])), 2) \o <<":">>
                     \o FormatInt(Val(ParseInt(parts[7])), 2) \o <<":", "0", "0">>),
         raw_dir |-> Some(parts[8]),
         m1 |-> IF both THEN ParseInt(parts[2]) ELSE NULL,
         m2 |-> IF both THEN ParseInt(parts[3]) ELSE NULL,
         m3 |-> ParseInt(parts[9])]

\* " ".join(parts)
RECURSIVE JoinBlank(_)
JoinBlank(parts) ==
    IF parts = <<>> THEN <<>>
    ELSE IF Len(parts) = 1 THEN parts[1]
    ELSE parts[1] \o <<" ">> \o JoinBlank(Tail(parts))

\* parse_log before the first line is read
ParseStart ==
    [rows |-> <<>>, in_data |-> FALSE, saw_data_marker |-> FALSE,
     base_year |-> NULL, folder_stamp |-> NULL]

\* parse_log, the body of the loop for one line; now_year is datetime.now().year
ParseLine(p, parts, now_year) ==
    IF parts = <<>> THEN p
    ELSE IF Head(parts[1]) \in {"#", ";"} THEN p
    ELSE IF Len(parts) = 1 /\ Lower(parts[1]) = DataMarker
         THEN [p EXCEPT !.in_data = TRUE, !.saw_data_marker = TRUE]
    ELSE IF p.saw_data_marker /\ ~p.in_data THEN p
    ELSE IF ~p.saw_data_marker
         THEN (IF FishEventMatch(parts)
               THEN [p EXCEPT !.rows = Append(p.rows, NarrativeRow(parts))]
               ELSE p)
    ELSE IF Len(parts) = 5 /\ IsDigit(parts[1]) /\ IsNull(p.base_year)
         THEN [p EXCEPT !.base_year = Some(2000 + DigitPrefixValue(parts[1], 0)),
                        !.folder_stamp = Some(JoinBlank(parts))]
    ELSE IF Len(parts) < 9 THEN p
    ELSE IF \E i \in 4..7 : IsNull(ParseInt(parts[i])) THEN p
    ELSE [p EXCEPT !.rows =
             Append(p.rows,
                    ColumnarRow(parts, IF IsNull(p.base_year) THEN now_year
                                       ELSE Val(p.base_year)))]

RECURSIVE ParseLines(_, _, _)
ParseLines(p, lines, now_year) ==
    IF lines = <<>> THEN p
    ELSE ParseLines(ParseLine(p, Head(lines), now_year), Tail(lines), now_year)

\* What parse_log returns: the rows and the diagnostics
ParseResult(p) ==
    [rows |-> p.rows, events_parsed |-> Len(p.rows), folder_stamp |-> p.folder_stamp]

\* parse_log
ParseLog(lines, now_year) == ParseResult(ParseLines(ParseStart, lines, now_year))

(***************************************************************************)
(* Video index and reconciliation.  A path is the sequence of its          *)
(* components, the last one the file name.                                 *)
(***************************************************************************)
MaxOf(S) == CHOOSE x \in S : \A y \in S : y <= x

\* Path.stem: the file name without its last suffix.
PathStem(p) ==
    LET name == p[Len(p)]
        dots == {i \in 2..Len(name) : name[i] = "."}
    IN  IF dots = {} THEN name ELSE SubSeq(name, 1, MaxOf(dots) - 1)

\* str(path) of an absolute path, or of a relative one when rel is TRUE
RECURSIVE JoinPath(_)
JoinPath(p) ==
    IF p = <<>> THEN <<>>
    ELSE IF Len(p) = 1 THEN p[1]
    ELSE p[1] \o <<"/">> \o JoinPath(Tail(p))

PathText(p, rel) ==
    IF rel THEN (IF p = <<>> THEN <<".">> ELSE JoinPath(p))
    ELSE <<"/">> \o JoinPath(p)

IsPrefix(r, p) == Len(r) <= Len(p) /\ SubSeq(p, 1, Len(r)) = r

\* idx.setdefault(key, p)
SetDefault(idx, key, p) == IF key \in DOMAIN idx THEN idx ELSE Put(idx, key, p)

\* index_videos, the body of the loop for one file of the walk
IndexOneClip(idx, p) ==
    LET stem == Strip(PathStem(p))
    IN  IF stem = <<>> THEN idx
        ELSE SetDefault(SetDefault(idx, stem, p), NormalizeEventId(stem), p)

\* index_videos: walk is what rglob("*.mp4") yields, in its order
RECURSIVE IndexVideosFrom(_, _)
IndexVideosFrom(idx, walk) ==
    IF walk = <<>> THEN idx
    ELSE IndexVideosFrom(IndexOneClip(idx, Head(walk)), Tail(walk))

IndexVideos(walk) == IndexVideosFrom(EmptyFcn, walk)

\* The lookup without its second try under the normalized id.
LookupVideoDirectOnly(vidx, eid) ==
    IF eid \in DOMAIN vidx THEN Some(vidx[eid]) ELSE NULL

\* vidx.get(eid) or vidx.get(_normalize_event_id(eid)); a Path is never falsy
LookupVideo(vidx, eid) ==
    IF eid \in DOMAIN vidx THEN Some(vidx[eid])
    ELSE IF NormalizeEventId(eid) \in DOMAIN vidx THEN Some(vidx[NormalizeEventId(eid)])
    ELSE NULL

\* build_event_rows, the body of the loop for one parsed row
BuildOneRow(r, vidx, video_library_root) ==
    LET vpath == LookupVideo(vidx, r.event_id)
        has_video == IF IsNull(vpath) THEN 0 ELSE 1
        rel == IF IsNull(vpath) THEN <<>>
               ELSE IF IsPrefix(video_library_root, Val(vpath))
                    THEN PathText(SubSeq(Val(vpath), Len(video_library_root) + 1,
                                         Len(Val(vpath))), TRUE)
                    ELSE PathText(Val(vpath), FALSE)
        vabs == IF IsNull(vpath) THEN <<>> ELSE PathText(Val(vpath), FALSE)
    IN  [event_id |-> r.event_id, ts |-> r.ts, raw_dir |-> r.raw_dir,
         m1 |-> r.m1, m2 |-> r.m2, m3 |-> r.m3,
         video_abs |-> Some(vabs), video_rel |-> Some(rel), has_video |-> Some(has_video)]

\* build_event_rows, after the log was found and parsed into at least one row
BuildEventRows(parsed, walk, video_library_root) ==
    LET vidx == IndexVideos(walk)
    IN  [i \in 1..Len(parsed) |-> BuildOneRow(parsed[i], vidx, video_library_root)]

(***************************************************************************)
(* The review session: st.session_state and the script that Streamlit      *)
(* runs from top to bottom for every operator action.                      *)
(***************************************************************************)
Prefix(seq, n) == SubSeq(seq, 1, IF n < Len(seq) THEN n ELSE Len(seq))

SpeciesList == <<"Chinook", "Rainbow", "Atlantic">>
Species == {SpeciesList[i] : i \in 1..Len(Prefix(SpeciesList, NumSpecies))}

\* The options of the movement radio, "x" shown for Stay.
MovementList == <<"Up", "Down", "Stay">>
Movements == {MovementList[i] : i \in 1..Len(Prefix(MovementList, NumMovements))}

NotesList == <<"n1", "n2", "n3">>
NotesTexts == {""} \cup {NotesList[i] : i \in 1..Len(Prefix(NotesList, NumNotes))}

\* datetime.now().isoformat(timespec="seconds"), as the number of the reading
Times == 1..NumTimes

\* init_state
InitState ==
    [ready |-> FALSE,
     queue |-> <<>>,
     current_event_id |-> NULL,
     notes |-> "",
     loaded_event_id |-> NULL,
     counts |-> EmptyFcn,
     actions |-> <<>>,
     status |-> DefaultStatus,
     diagnostics |-> "none"]

QueueHead(q) == IF q = <<>> THEN NULL ELSE Some(q[1])

\* "Refresh queue" and "Ensure current"
RefreshQueue(s, c) ==
    LET q == IF s.queue = <<>> THEN GetUnreviewedEventIds(c) ELSE s.queue
    IN  [s EXCEPT !.queue = q,
                  !.current_event_id =
                      IF IsNull(s.current_event_id) THEN QueueHead(q)
                      ELSE s.current_event_id]

\* The load block without the reset of the tally and of the undo stack.
LoadSessionKeepEdits(s, c) ==
    IF s.loaded_event_id = s.current_event_id THEN s
    ELSE [s EXCEPT !.status = LoadStatus(c, Val(s.current_event_id)),
                   !.loaded_event_id = s.current_event_id]

\* "Load existing counts/status once per event change"
LoadSession(s, c) ==
    IF s.loaded_event_id = s.current_event_id THEN s
    ELSE [s EXCEPT !.counts = LoadCounts(c, Val(s.current_event_id)),
                   !.actions = <<>>,
                   !.status = LoadStatus(c, Val(s.current_event_id)),
                   !.notes = LoadStatus(c, Val(s.current_event_id)).notes,
                   !.loaded_event_id = s.current_event_id]

\* One run of the script below the sidebar with no button pressed.
Render(s, c) ==
    IF ~s.ready THEN s
    ELSE LET s1 == RefreshQueue(s, c)
         IN  IF IsNull(s1.current_event_id) THEN s1
             ELSE IF IsNull(GetEvent(c, Val(s1.current_event_id))) THEN s1
             ELSE LoadSession(s1, c)

\* st.rerun(): the script runs again, on a new connection.
Rerun(s, d) == Render(s, ConnectDb(d))

\* The review widgets are drawn: an event is current and found in the store.
Reviewing(s, c) ==
    /\ s.ready
    /\ ~IsNull(s.current_event_id)
    /\ ~IsNull(GetEvent(c, Val(s.current_event_id)))

Last(op, ok, event_id, counts) ==
    [op |-> op, ok |-> ok, event_id |-> event_id, counts |-> counts]

(***************************************************************************)
(* What the operator's project folder can hold when Index / Reload runs.   *)
(***************************************************************************)
TsNov1 == <<"2","0","2","5","-","1","1","-","0","1"," ","0","9",":","0","0",":","0","0">>
TsNov3 == <<"2","0","2","5","-","1","1","-","0","3"," ","1","4",":","0","0",":","0","0">>

Mp4(stem) == stem \o <<".", "m", "p", "4">>
VideoRoot == << <<"v">> >>

\* A row as parse_log returns it.
ParsedRow(event_id, ts) ==
    [event_id |-> event_id, ts |-> Some(ts), raw_dir |-> Some(<<"-">>),
     m1 |-> Some(1), m2 |-> Some(2), m3 |-> NULL]

MainIdList == << <<"7">>, <<"1", "0">>, <<"0", "0", "7">> >>
MainIds == {MainIdList[i] : i \in 1..Len(Prefix(MainIdList, NumEvents))}
MainTs(event_id) == IF event_id = <<"1", "0">> THEN TsNov1 ELSE TsNov3

RECURSIVE RowsOf(_, _)
RowsOf(ids, S) ==
    IF ids = <<>> THEN <<>>
    ELSE (IF Head(ids) \in S THEN <<ParsedRow(Head(ids), MainTs(Head(ids)))>> ELSE <<>>)
         \o RowsOf(Tail(ids), S)

\* has_log: find_first_log finds a file; parsed: what parse_log makes of it;
\* walk: the mp4 files under the video index root; lib: the video library root.
MainProjects ==
    [has_log : BOOLEAN,
     parsed : {RowsOf(MainIdList, S) : S \in SUBSET MainIds},
     walk : {<<VideoRoot \o <<Mp4(<<"7">>)>> >>},
     lib : {VideoRoot}]

\* A store written by an earlier version of the app: events without the ts and
\* video columns, event_status without reviewed_at.
LegacyStore ==
    [exists |-> TRUE,
     events_cols |-> {"raw_dir", "m1", "m2", "m3"},
     status_cols |-> {"false_trigger", "notes"},
     events |-> Put(EmptyFcn, <<"7">>,
                    [raw_dir |-> NULL, m1 |-> Some(1), m2 |-> Some(2), m3 |-> NULL]),
     status |-> Put(EmptyFcn, <<"7">>, [false_trigger |-> Some(0), notes |-> NULL]),
     counts |-> Put(EmptyFcn, <<(<<"7">>), "Chinook", "Up">>, 1)]

InitialStores == {NoStore, LegacyStore}

(***************************************************************************)
(* The handlers.                                                           *)
(***************************************************************************)
Init ==
    /\ db \in InitialStores
    /\ conn = ConnectDb(NoStore)
    /\ ss = InitState
    /\ last = Last("init", TRUE, NULL, EmptyFcn)
    /\ arg = <<>>
    /\ res = <<>>

\* "Index / Reload project" with a project root entered
IndexReload(project) ==
    LET c0 == ConnectDb(db)
        failed == ~project.has_log \/ project.parsed = <<>>
        rows == BuildEventRows(project.parsed, project.walk, project.lib)
        c1 == [UpsertEvents(c0, rows) EXCEPT !.in_txn = FALSE]
        d1 == Commit(Migrated(db), c1)
        q == GetUnreviewedEventIds(c1)
        s1 == [ss EXCEPT !.queue = q,
                         !.current_event_id = QueueHead(q),
                         !.diagnostics = "indexed",
                         !.ready = TRUE,
                         !.loaded_event_id = NULL]
    IN  /\ db' = IF failed THEN Migrated(db) ELSE d1
        /\ conn' = IF failed THEN c0 ELSE ConnectDb(d1)
        /\ ss' = IF failed
                 THEN [ss EXCEPT !.ready = FALSE, !.diagnostics = "error"]
                 ELSE Rerun(s1, d1)
        /\ last' = Last("index", ~failed, NULL, EmptyFcn)
        /\ UNCHANGED <<arg, res>>

\* "Load selected event"; selected is st.session_state.selected_event_id as the
\* event browser leaves it in the run of the button: the row that is selected,
\* or none.
LoadSelected(selected) ==
    \E c \in {ConnectDb(db)} : \E s0 \in {Render(ss, c)} :
        /\ s0.ready
        /\ DOMAIN c.events # {}
        /\ selected # NULL => Val(selected) \in DOMAIN c.events
        /\ ss' = IF IsNull(selected) THEN s0
                 ELSE Rerun([s0 EXCEPT !.current_event_id = selected,
                                       !.loaded_event_id = NULL], db)
        /\ conn' = c
        /\ last' = Last("load_selected", TRUE, selected, EmptyFcn)
        /\ db' = Migrated(db)
        /\ UNCHANGED <<arg, res>>

\* "Resume next unreviewed"
Resume ==
    \E c \in {ConnectDb(db)} : \E s0 \in {Render(ss, c)} :
        /\ s0.ready
        /\ DOMAIN c.events # {}
        /\ ss' = Rerun([s0 EXCEPT !.current_event_id = QueueHead(s0.queue),
                                  !.loaded_event_id = NULL], db)
        /\ conn' = c
        /\ last' = Last("resume", TRUE, NULL, EmptyFcn)
        /\ db' = Migrated(db)
        /\ UNCHANGED <<arg, res>>

\* The movement radio is set to another option: a run of the script in which no
\* button is pressed.  (The option is read by the species buttons of that run.)
ChangeMovement ==
    \E c \in {ConnectDb(db)} : \E s0 \in {Render(ss, c)} :
        /\ Reviewing(s0, c)
        /\ ss' = s0
        /\ conn' = c
        /\ last' = Last("movement", TRUE, NULL, EmptyFcn)
        /\ db' = Migrated(db)
        /\ UNCHANGED <<arg, res>>

\* The notes text area is edited.
SetNotes(text) ==
    \E c \in {ConnectDb(db)} : \E s0 \in {Render(ss, c)} :
        /\ Reviewing(s0, c)
        /\ text # s0.notes
        /\ ss' = [s0 EXCEPT !.notes = text]
        /\ conn' = c
        /\ last' = Last("notes", TRUE, NULL, EmptyFcn)
        /\ db' = Migrated(db)
        /\ UNCHANGED <<arg, res>>

DictGet(d, k) == IF k \in DOMAIN d THEN d[k] ELSE 0

\* An add_observation that does not append to _actions.
AddObservationUntracked(s, species, mv) ==
    [s EXCEPT !.counts = Put(s.counts, <<species, mv>>, DictGet(s.counts, <<species, mv>>) + 1)]

\* add_observation(species, mv)
AddObservation(s, species, mv) ==
    [s EXCEPT !.counts = Put(s.counts, <<species, mv>>, DictGet(s.counts, <<species, mv>>) + 1),
              !.actions = Append(s.actions, <<species, mv>>)]

\* A species button is clicked; mv is the option of the movement radio in that
\* run of the script (st.session_state.movement).
Increment(species, mv) ==
    \E c \in {ConnectDb(db)} : \E s0 \in {Render(ss, c)} :
        /\ Reviewing(s0, c)
        /\ Len(s0.actions) < MaxActions
        /\ DictGet(s0.counts, <<species, mv>>) < MaxCount
        /\ ss' = Rerun(AddObservation(s0, species, mv), db)
        /\ conn' = c
        /\ last' = Last("increment", TRUE, NULL, s0.counts)
        /\ db' = Migrated(db)
        /\ UNCHANGED <<arg, res>>

\* An Undo that takes the oldest entry of _actions.
UndoOldest(s) ==
    LET key == s.actions[1]
        n == DictGet(s.counts, key) - 1
    IN  [s EXCEPT !.actions = Tail(s.actions),
                  !.counts = Put(s.counts, key, IF n > 0 THEN n ELSE 0)]

\* The body of the Undo handler when _actions is not empty.
UndoLast(s) ==
    LET key == s.actions[Len(s.actions)]
        n == DictGet(s.counts, key) - 1
    IN  [s EXCEPT !.actions = SubSeq(s.actions, 1, Len(s.actions) - 1),
                  !.counts = Put(s.counts, key, IF n > 0 THEN n ELSE 0)]

\* "Undo"
Undo ==
    \E c \in {ConnectDb(db)} : \E s0 \in {Render(ss, c)} :
        /\ Reviewing(s0, c)
        /\ ss' = Rerun(IF s0.actions # <<>> THEN UndoLast(s0) ELSE s0, db)
        /\ conn' = c
        /\ last' = Last("undo", TRUE, NULL, EmptyFcn)
        /\ db' = Migrated(db)
        /\ UNCHANGED <<arg, res>>

\* A Clear that empties _actions and keeps _counts.
ClearActionsOnly(s) == [s EXCEPT !.actions = <<>>]

\* The assignments of the Clear handler.
ClearSession(s) == [s EXCEPT !.counts = EmptyFcn, !.actions = <<>>]

\* "Clear"
Clear ==
    \E c \in {ConnectDb(db)} : \E s0 \in {Render(ss, c)} :
        /\ Reviewing(s0, c)
        /\ ss' = Rerun(ClearSession(s0), db)
        /\ conn' = c
        /\ last' = Last("clear", TRUE, NULL, EmptyFcn)
        /\ db' = Migrated(db)
        /\ UNCHANGED <<arg, res>>

\* The handler with the exception of save_event caught and passed over.
AfterSaveEventAlways(s, q, returned) ==
    [s EXCEPT !.queue = q,
              !.current_event_id = QueueHead(q),
              !.loaded_event_id = NULL]

\* The handler without the new reading of the queue.
AfterSaveEventStaleQueue(s, q, returned) ==
    IF returned
    THEN [s EXCEPT !.current_event_id = QueueHead(s.queue),
                   !.loaded_event_id = NULL]
    ELSE s

\* The assignments of the Save & Next handler below the call of save_event:
\* they run when the call returned, and not when it raised.
AfterSaveEvent(s, q, returned) ==
    IF returned
    THEN [s EXCEPT !.queue = q,
                   !.current_event_id = QueueHead(q),
                   !.loaded_event_id = NULL]
    ELSE s

\* "Save & Next"; reviewed_at is the reading of the clock, fail the place where
\* save_event raises, if it does.
SaveNext(reviewed_at, fail) ==
    \E c \in {ConnectDb(db)} : \E s0 \in {Render(ss, c)} :
        /\ Reviewing(s0, c)
        /\ \E event_id \in {Val(s0.current_event_id)} :
           \E cs \in {SaveEvent(c, event_id, s0.counts, s0.notes, 0, reviewed_at, fail)} :
           \E d1 \in {Commit(Migrated(db), cs)} :
           \E s1 \in {AfterSaveEvent(s0, GetUnreviewedEventIds(cs), fail = "none")} :
              /\ db' = IF fail = "none" THEN d1 ELSE Migrated(db)
              /\ conn' = IF fail = "none" THEN ConnectDb(d1) ELSE cs
              /\ ss' = IF fail = "none" THEN Rerun(s1, d1) ELSE s1
              /\ last' = Last("save", fail = "none", Some(event_id), s0.counts)
              /\ UNCHANGED <<arg, res>>

\* "Back"
Back ==
    \E c \in {ConnectDb(db)} : \E s0 \in {Render(ss, c)} :
        LET event_id == Val(s0.current_event_id)
            cur == Val(GetEvent(c, event_id))
            found == BackQuery(c, cur.ts, event_id)
        IN  /\ Reviewing(s0, c)
            /\ \/ /\ found = {}
                  /\ ss' = s0
               \/ \E prev \in found :
                    ss' = Rerun([s0 EXCEPT !.current_event_id = Some(prev),
                                           !.loaded_event_id = NULL], db)
            /\ conn' = c
            /\ last' = Last("back", found # {}, Some(event_id), EmptyFcn)
            /\ db' = Migrated(db)
            /\ UNCHANGED <<arg, res>>

\* "Skip"
Skip ==
    \E c \in {ConnectDb(db)} : \E s0 \in {Render(ss, c)} :
        LET q == IF s0.queue # <<>> /\ Some(s0.queue[1]) = s0.current_event_id
                 THEN Tail(s0.queue) ELSE s0.queue
        IN  /\ Reviewing(s0, c)
            /\ ss' = Rerun([s0 EXCEPT !.queue = q,
                                      !.current_event_id = QueueHead(q),
                                      !.loaded_event_id = NULL], db)
            /\ conn' = c
            /\ last' = Last("skip", TRUE, s0.current_event_id, s0.counts)
            /\ db' = Migrated(db)
            /\ UNCHANGED <<arg, res>>

Next ==
    \/ \E project \in MainProjects : IndexReload(project)
    \/ \E selected \in {NULL} \cup {Some(e) : e \in MainIds} : LoadSelected(selected)
    \/ Resume
    \/ ChangeMovement
    \/ \E text \in NotesTexts : SetNotes(text)
    \/ \E species \in Species, mv \in Movements : Increment(species, mv)
    \/ Undo
    \/ Clear
    \/ \E t \in Times, fail \in FailPoints : SaveNext(t, fail)
    \/ Back
    \/ Skip

Spec == Init /\ [][Next]_vars

(***************************************************************************)
(* Properties of the review session and its store, checked under Spec.     *)
(***************************************************************************)
Positive(counts) == Restrict(counts, {k \in DOMAIN counts : counts[k] > 0})

SaveFailed == last.op = "save" /\ ~last.ok
SaveDone == last.op = "save" /\ last.ok

\* C1: after a save_event that failed between the DELETE and the status upsert,
\* reading the tally and the status of the event through the connection gives
\* what the store held before the call (which is what the file still holds).
C1_SaveAtomic ==
    SaveFailed =>
        /\ LoadCounts(conn, Val(last.event_id)) = LoadCounts(ConnectDb(db), Val(last.event_id))
        /\ LoadStatus(conn, Val(last.event_id)) = LoadStatus(ConnectDb(db), Val(last.event_id))

\* C2: after a successful save_event(id, tally), load_counts(id) is exactly the
\* entries of tally with a count above 0.
C2_SaveReplaces ==
    SaveDone => LoadCounts(conn, Val(last.event_id)) = Positive(last.counts)

\* C2 witness: a save went through whose tally held an entry at 0 and an entry
\* above 0.
C2_Witness ==
    /\ SaveDone
    /\ \E k \in DOMAIN last.counts : last.counts[k] = 0
    /\ \E k \in DOMAIN last.counts : last.counts[k] > 0

\* C3: every row of counts, committed or seen through the connection, has a
\* count of at least 1.
C3_CountsPositive ==
    /\ \A x \in DOMAIN db.counts : db.counts[x] >= 1
    /\ \A x \in DOMAIN conn.counts : conn.counts[x] >= 1

\* C3 witness: a tally with an entry that Undo left at 0 was saved.
C3_Witness ==
    /\ SaveDone
    /\ \E k \in DOMAIN last.counts : last.counts[k] = 0
    /\ DOMAIN db.counts # {}

\* C4: Index / Reload leaves every row of event_status and of counts as
\* connect_db found it.
C4_UpsertKeepsReview ==
    [][last'.op = "index" =>
         /\ db'.status = Migrated(db).status
         /\ db'.counts = Migrated(db).counts]_vars

\* C4 witness: the project was indexed again over a store that holds a review.
C4_Witness ==
    /\ last.op = "index" /\ last.ok
    /\ \E e \in DOMAIN db.status : ~IsNull(db.status[e].reviewed_at)
    /\ DOMAIN db.counts # {}

NoDuplicates(seq) == \A i, j \in 1..Len(seq) : i # j => seq[i] # seq[j]
Range(seq) == {seq[i] : i \in 1..Len(seq)}

\* C10: get_unreviewed_event_ids lists, each once, exactly the events with no
\* status row or with a row whose reviewed_at is NULL; load_status of an event
\* without a row is the default status, and the event still has no row when the
\* session has loaded it.
C10_Unreviewed ==
    LET q == GetUnreviewedEventIds(conn)
    IN  /\ NoDuplicates(q)
        /\ Range(q) = {e \in DOMAIN conn.events :
                          \/ e \notin DOMAIN conn.status
                          \/ IsNull(conn.status[e].reviewed_at)}
        /\ \A e \in DOMAIN conn.events \ DOMAIN conn.status :
              /\ LoadStatus(conn, e) = DefaultStatus
              /\ ss.ready /\ ss.loaded_event_id = Some(e) => ss.status = DefaultStatus

\* C10 witness: one event is reviewed, one has no status row and is loaded in
\* the session.
C10_Witness ==
    /\ \E e \in DOMAIN conn.status : ~IsNull(conn.status[e].reviewed_at)
    /\ \E e \in DOMAIN conn.events \ DOMAIN conn.status :
          ss.ready /\ ss.loaded_event_id = Some(e)

(***************************************************************************)
(* _normalize_event_id on its own: every identifier of up to MaxIdLen      *)
(* characters, as parse_log and index_videos hand it over (a token of      *)
(* split(), or a stem after strip(): no blank at either end).              *)
(***************************************************************************)
Idle ==
    /\ conn = ConnectDb(NoStore)
    /\ ss = InitState
    /\ last = Last("init", TRUE, NULL, EmptyFcn)

NormAlphabet == {"0", "7", "a", "b", "c", " "}
IdStrings ==
    {x \in UNION {[1..k -> NormAlphabet] : k \in 1..MaxIdLen} :
        ~IsSpace(x[1]) /\ ~IsSpace(x[Len(x)])}

NormInit ==
    /\ Idle
    /\ db = NoStore
    /\ arg \in IdStrings
    /\ res = <<>>

NormalizeOnce ==
    /\ res = <<>>
    /\ res' = <<NormalizeEventId(arg)>>
    /\ UNCHANGED <<db, conn, ss, last, arg>>

NormalizeAgain ==
    /\ Len(res) = 1
    /\ res' = Append(res, NormalizeEventId(res[1]))
    /\ UNCHANGED <<db, conn, ss, last, arg>>

NormNext == NormalizeOnce \/ NormalizeAgain

SpecNorm == NormInit /\ [][NormNext]_vars

AllDigits(x) ==
    x # <<>> /\ \A i \in 1..Len(x) :
                   x[i] \in {"0", "1", "2", "3", "4", "5", "6", "7", "8", "9"}

\* y is x without its leading zeros, "0" when x holds nothing else
LeadingZerosDropped(x, y) ==
    \E k \in 0..Len(x) :
        /\ \A i \in 1..k : x[i] = "0"
        /\ IF k = Len(x) THEN y = <<"0">>
           ELSE x[k + 1] # "0" /\ y = SubSeq(x, k + 1, Len(x))

\* C6: normalize(normalize(x)) = normalize(x); a purely numeric x loses its
\* leading zeros ("007" gives "7", "000" gives "0"), any other x is returned
\* as it is ("abc" gives "abc").
C6_NormalizeIdempotent ==
    /\ Len(res) >= 1 =>
          /\ AllDigits(arg) => LeadingZerosDropped(arg, res[1])
          /\ ~AllDigits(arg) => res[1] = arg
          /\ arg = <<"0", "0", "7">> => res[1] = <<"7">>
          /\ arg = <<"0", "0", "0">> => res[1] = <<"0">>
          /\ arg = <<"a", "b", "c">> => res[1] = <<"a", "b", "c">>
    /\ Len(res) = 2 => res[2] = res[1]

\* C6 witness: "007" was normalized twice.
C6_Witness == arg = <<"0", "0", "7">> /\ res = << <<"7">>, <<"7">> >>

(***************************************************************************)
(* Index / Reload on a new store, for every small log and video folder.    *)
(***************************************************************************)
SubFolder == VideoRoot \o << <<"s">> >>

ReconIds == {<<"7">>, <<"0", "0", "7">>, <<"a">>}
ReconClips ==
    {VideoRoot \o <<Mp4(<<"7">>)>>,
     SubFolder \o <<Mp4(<<"0", "0", "7">>)>>,
     SubFolder \o <<Mp4(<<"7">>)>>,
     VideoRoot \o <<Mp4(<<" ">>)>>}

SeqsUpTo(S, lo, hi) == UNION {[1..k -> S] : k \in lo..hi}

ReconProjects ==
    [has_log : {TRUE},
     parsed : {[i \in 1..Len(ids) |-> ParsedRow(ids[i], TsNov1)] :
                  ids \in SeqsUpTo(ReconIds, 1, MaxBatch)},
     walk : {w \in SeqsUpTo(ReconClips, 0, MaxWalk) : NoDuplicates(w)},
     lib : {VideoRoot, SubFolder}]

ReconInit ==
    /\ Idle
    /\ db = NoStore
    /\ arg \in ReconProjects
    /\ res = <<>>

ReconIndex ==
    /\ last.op = "init"
    /\ IndexReload(arg)

SpecRecon == ReconInit /\ [][ReconIndex]_vars

\* Some file of the walk is reached from event id eid, by its stem or by its
\* normalized stem, looked up under eid or under the normalized eid.
ClipFound(walk, eid) ==
    \E i \in 1..Len(walk) :
        LET stem == Strip(PathStem(walk[i]))
        IN  /\ stem # <<>>
            /\ {stem, NormalizeEventId(stem)} \cap {eid, NormalizeEventId(eid)} # {}

\* C5: for every event that Index / Reload stored, has_video is 1 iff a clip
\* was found by the direct or the normalized lookup iff video_abs is not
\* empty, and with has_video = 0 both paths are empty.
C5_HasVideo ==
    last.op = "index" /\ last.ok =>
        \A i \in 1..Len(arg.parsed) :
            LET row == db.events[arg.parsed[i].event_id]
                found == ClipFound(arg.walk, arg.parsed[i].event_id)
            IN  /\ row.has_video \in {Some(0), Some(1)}
                /\ row.has_video = Some(1) <=> found
                /\ found <=> row.video_abs # Some(<<>>)
                /\ row.has_video = Some(0) =>
                      row.video_abs = Some(<<>>) /\ row.video_rel = Some(<<>>)

\* C5 witness: one event got its clip through the normalized lookup only, and
\* another event got none.
C5_Witness ==
    /\ last.op = "index" /\ last.ok
    /\ \E e \in DOMAIN db.events :
          /\ db.events[e].has_video = Some(1)
          /\ \A i \in 1..Len(arg.walk) : Strip(PathStem(arg.walk[i])) # e
    /\ \E e \in DOMAIN db.events : db.events[e].has_video = Some(0)

(***************************************************************************)
(* The listings and the Back query on their own, for every store of up to  *)
(* NumNavIds events.  An event has a NULL ts when an earlier version of    *)
(* the app stored it without that column.                                  *)
(***************************************************************************)
NavIdList ==
    << <<"5">>, <<"3">>, <<"1", "0">>, <<"1", "2", "a", "b", "c">>,
       <<"5", "a", "b", "c">>, <<"a", "b", "c">>, <<"0">> >>
NavIds == {NavIdList[i] : i \in 1..Len(Prefix(NavIdList, NumNavIds))}
NavTs == {NULL, Some(TsNov1), Some(TsNov3)}

NavRow(ts) ==
    [ts |-> ts, raw_dir |-> NULL, m1 |-> NULL, m2 |-> NULL, m3 |-> NULL,
     video_abs |-> NULL, video_rel |-> NULL, has_video |-> Some(0)]

NavStores ==
    {[exists |-> TRUE, events_cols |-> EventCols, status_cols |-> StatusCols,
      events |-> [e \in DOMAIN f |-> NavRow(f[e])],
      status |-> EmptyFcn, counts |-> EmptyFcn] :
        f \in UNION {[S -> NavTs] : S \in SUBSET NavIds \ {{}}}}

NavInit ==
    /\ db \in NavStores
    /\ conn = ConnectDb(db)
    /\ ss = InitState
    /\ last = Last("init", TRUE, NULL, EmptyFcn)
    /\ arg = <<>>
    /\ res = <<>>

EventIds(rows) == [i \in 1..Len(rows) |-> rows[i].event_id]

ListOverview ==
    /\ arg = <<>>
    /\ arg' = <<"overview">>
    /\ res' = <<EventIds(GetEventsOverview(conn))>>
    /\ UNCHANGED <<db, conn, ss, last>>

ListUnreviewed ==
    /\ arg = <<>>
    /\ arg' = <<"unreviewed">>
    /\ res' = <<GetUnreviewedEventIds(conn)>>
    /\ UNCHANGED <<db, conn, ss, last>>

\* The Back query run for a current event e; the row it returns, if any.
BackFrom(e) ==
    LET found == BackQuery(conn, conn.events[e].ts, e)
    IN  /\ arg = <<>>
        /\ e \in DOMAIN conn.events
        /\ arg' = <<"back", e>>
        /\ \/ found = {} /\ res' = <<NULL>>
           \/ \E prev \in found : res' = <<Some(prev)>>
        /\ UNCHANGED <<db, conn, ss, last>>

NavNext ==
    \/ ListOverview
    \/ ListUnreviewed
    \/ \E e \in NavIds : BackFrom(e)

SpecNav == NavInit /\ [][NavNext]_vars

Listed == arg \in {<<"overview">>, <<"unreviewed">>}

\* The order the specification gives: with a timestamp first, then by
\* timestamp, then two purely numeric ids by value and two other ids by
\* their text.  (Nothing is asked of a numeric id against another one.)
MustPrecede(c, a, b) ==
    LET ta == c.events[a].ts
        tb == c.events[b].ts
    IN  IF IsNull(ta) # IsNull(tb) THEN IsNull(tb)
        ELSE IF ta # tb THEN TextLess(Val(ta), Val(tb))
        ELSE IF AllDigits(a) /\ AllDigits(b)
             THEN DigitPrefixValue(a, 0) < DigitPrefixValue(b, 0)
        ELSE IF ~AllDigits(a) /\ ~AllDigits(b) THEN TextLess(a, b)
        ELSE FALSE

\* C7: the unreviewed queue and the overview list the events with a timestamp
\* first, by timestamp, then by numeric value for purely numeric ids and by
\* text for the others.
C7_CanonicalOrder ==
    Listed => \A i, j \in 1..Len(res[1]) :
                  i < j => ~MustPrecede(conn, res[1][j], res[1][i])

ExampleStore ==
    /\ DOMAIN conn.events = {<<"5">>, <<"3">>, <<"1", "0">>}
    /\ conn.events[<<"5">>].ts = NULL
    /\ conn.events[<<"3">>].ts = Some(TsNov3)
    /\ conn.events[<<"1", "0">>].ts = Some(TsNov1)

\* C8, as stated: the events 5 (no timestamp), 3 (3 November 14:00) and 10
\* (1 November 09:00) are listed 3, 10, 5.
C8_ExampleAsStated ==
    ExampleStore /\ Listed => res[1] = << <<"3">>, <<"1", "0">>, <<"5">> >>

\* C8, amended: the events 5 (no timestamp), 3 (3 November 14:00) and 10
\* (1 November 09:00) are listed 10, 3, 5.
C8_Example ==
    ExampleStore /\ Listed => res[1] = << <<"1", "0">>, <<"3">>, <<"5">> >>

\* C8 witness: the overview of the example store was read.
C8_Witness == ExampleStore /\ arg = <<"overview">> /\ Len(res[1]) = 3

\* The event before e in the listing, none when e is first.
Predecessor(ids, e) ==
    LET i == CHOOSE k \in 1..Len(ids) : ids[k] = e
    IN  IF i = 1 THEN NULL ELSE Some(ids[i - 1])

\* C9: Back goes to the event just before the current one in the order of the
\* overview, and nowhere only when the current event is first.
C9_BackIsPredecessor ==
    Len(arg) = 2 =>
        res[1] = Predecessor(EventIds(GetEventsOverview(conn)), arg[2])


(***************************************************************************)
(* Properties of the review session, checked under Spec (continued).       *)
(***************************************************************************)
FrameOps ==
    {"load_selected", "resume", "notes", "movement", "increment", "undo",
     "clear", "back", "skip"}

\* C11: a run of the script for Load selected, Resume, a notes edit, a movement
\* change, a species button, Undo, Clear, Back or Skip (each loads the current
\* event when it changed) leaves every row of event_status and of counts as it
\* was, in the file and as the connection of the run sees it.
C11_OnlySaveWrites ==
    [][last'.op \in FrameOps =>
         /\ db'.status = db.status
         /\ db'.counts = db.counts
         /\ conn'.status = db.status
         /\ conn'.counts = db.counts]_vars

\* C11 witness: after such a run an event without a status row is loaded with
\* a pending tally while the store holds count rows of a reviewed event.
C11_Witness ==
    /\ last.op \in FrameOps
    /\ DOMAIN db.counts # {}
    /\ \E e \in DOMAIN db.events \ DOMAIN db.status :
          /\ ss.loaded_event_id = Some(e)
          /\ ss.actions # <<>>


\* The session holds what the store holds for the event it has loaded, if any.
Fresh(s, c) ==
    \/ IsNull(s.loaded_event_id)
    \/ /\ s.counts = LoadCounts(c, Val(s.loaded_event_id))
       /\ s.notes = LoadStatus(c, Val(s.loaded_event_id)).notes
       /\ s.actions = <<>>

\* C12: after Skip, Resume, Load selected with a row selected, a Back that
\* finds a previous event, or a successful Index / Reload, the event that is
\* loaded (the same one or another) has the tally and the notes of the store
\* and an empty undo stack.
C12_NavigationDiscards ==
    [][(\/ last'.op \in {"skip", "resume"}
        \/ last'.op = "load_selected" /\ ~IsNull(last'.event_id)
        \/ last'.op = "back" /\ last'.ok
        \/ last'.op = "index" /\ last'.ok)
       => Fresh(ss', conn')]_vars

\* C12 witness: Skip was pressed on an event with unsaved additions, and the
\* same event is loaded again.
C12_Witness ==
    /\ last.op = "skip"
    /\ last.counts # LoadCounts(conn, Val(last.event_id))
    /\ ss.loaded_event_id = last.event_id


\* C13: a Save & Next in which save_event raises leaves the current event, the
\* pending tally, the undo stack, the notes and the queue of the session as
\* they were, and a Save & Next right after it saves the same tally for the
\* same event.
C13_FailedSaveKeepsSession ==
    [][/\ last'.op = "save" /\ ~last'.ok =>
            /\ ss'.current_event_id = ss.current_event_id
            /\ ss'.loaded_event_id = ss.loaded_event_id
            /\ ss'.counts = ss.counts
            /\ ss'.actions = ss.actions
            /\ ss'.notes = ss.notes
            /\ ss'.queue = ss.queue
            /\ last'.event_id = ss.current_event_id
            /\ last'.counts = ss.counts
       /\ last.op = "save" /\ ~last.ok /\ last'.op = "save" =>
            /\ last'.event_id = last.event_id
            /\ last'.counts = last.counts]_vars

\* C13 witness: the save of an event with unsaved additions and a note failed.
C13_Witness ==
    /\ SaveFailed
    /\ ss.actions # <<>>
    /\ ss.notes # ""
    /\ ss.loaded_event_id = last.event_id


\* C14: an Index / Reload that finds no log, or a log without events, leaves
\* the file as it was (no store where there was none, the rows of every table
\* unchanged) and marks the session not ready with the error recorded.
C14_FailedIndexCommitsNothing ==
    [][last'.op = "index" /\ ~last'.ok =>
         /\ db' = db
         /\ ~ss'.ready
         /\ ss'.diagnostics = "error"]_vars


(***************************************************************************)
(* parse_log on its own, for every log of up to MaxLines lines taken from   *)
(* LogLines.                                                                *)
(***************************************************************************)
EventLine(id, month) ==
    <<id, <<"1">>, <<"2">>, month, <<"3">>, <<"1", "4">>, <<"3", "0">>, <<"+">>, <<"5">> >>

BlankLine == <<>>
MarkerLine == << <<"[", "D", "a", "t", "a", "]">> >>
StampLine == << <<"2", "5">>, <<"1", "1">>, <<"0", "3">>, <<"1", "4">>, <<"3", "0">> >>
OddStampLine == << <<"2", "4">>, <<"x", "x">>, <<"0", "3">>, <<"1", "4">>, <<"3", "0">> >>
Event7Line == EventLine(<<"7">>, <<"1", "1">>)
Event10Line == EventLine(<<"1", "0">>, <<"1", "1">>)
OddMonthLine == EventLine(<<"3">>, <<"x", "x">>)
ShortLine == SubSeq(EventLine(<<"5">>, <<"1", "1">>), 1, 8)
CommentLine == << <<"#", "7">> >> \o Tail(Event7Line)
NarrativeLine ==
    <<SubSeq(TsNov1, 1, 10), SubSeq(TsNov1, 12, 19)>> \o NarrativeWords \o << <<"9">> >>

LogLines ==
    {BlankLine, MarkerLine, StampLine, OddStampLine, Event7Line, Event10Line,
     OddMonthLine, ShortLine, CommentLine, NarrativeLine}

NowYear == 2026

ParseInit ==
    /\ Idle
    /\ db = NoStore
    /\ arg \in [lines : SeqsUpTo(LogLines, 0, MaxLines), now_year : {NowYear}]
    /\ res = <<>>

ParseOnce ==
    /\ res = <<>>
    /\ res' = <<ParseLog(arg.lines, arg.now_year)>>
    /\ UNCHANGED <<db, conn, ss, last, arg>>

SpecParse == ParseInit /\ [][ParseOnce]_vars

Parsed == res # <<>>
HasMarker(lines) == \E i \in 1..Len(lines) : lines[i] = MarkerLine

\* The lines after the first [data] marker.
AfterMarker(lines) ==
    LET k == CHOOSE i \in 1..Len(lines) :
                 lines[i] = MarkerLine /\ \A j \in 1..(i - 1) : lines[j] # MarkerLine
    IN  SubSeq(lines, k + 1, Len(lines))

\* An optional sign and digits.
IntegerText(t) ==
    AllDigits(IF t # <<>> /\ t[1] \in {"+", "-"} THEN Tail(t) ELSE t)

\* Not blank, not a comment, at least 9 tokens, month, day, hour and minute
\* integers.
Eventful(parts) ==
    /\ parts # <<>>
    /\ parts[1][1] \notin {"#", ";"}
    /\ Len(parts) >= 9
    /\ \A i \in 4..7 : IntegerText(parts[i])

IsColumnarRow(r) == r.raw_dir # Some(<<>>)

\* C15: of the lines after the [data] marker, exactly the lines that are not
\* blank, not a comment, have 9 tokens or more and an integer month, day, hour
\* and minute yield an event, one each, in the order of the lines.
C15_ColumnarLines ==
    Parsed /\ HasMarker(arg.lines) =>
        LET want == SelectSeq(AfterMarker(arg.lines), Eventful)
            got == SelectSeq(res[1].rows, IsColumnarRow)
        IN  /\ Len(got) = Len(want)
            /\ \A i \in 1..Len(want) : got[i].event_id = want[i][1]

\* C15 witness: a line with a month that is no integer and an event line were
\* parsed after the marker.
C15_Witness ==
    /\ Parsed
    /\ arg.lines = <<MarkerLine, OddMonthLine, Event7Line>>
    /\ Len(res[1].rows) = 1

\* C16: the folder stamp is the first line after [data] with exactly 5 tokens,
\* all of them numeric; a line of 5 tokens with another token is no stamp; the
\* event lines after the stamp get the year 2000 + YY.
C16_FolderStamp ==
    Parsed /\ HasMarker(arg.lines) =>
        LET after == AfterMarker(arg.lines)
            stamps == {i \in 1..Len(after) :
                          Len(after[i]) = 5 /\ \A k \in 1..5 : AllDigits(after[i][k])}
            first == CHOOSE i \in stamps : \A j \in stamps : i <= j
            got == SelectSeq(res[1].rows, IsColumnarRow)
            \* the line that gave the n-th columnar row
            LineOf(n) == CHOOSE j \in 1..Len(after) :
                             /\ Eventful(after[j])
                             /\ Cardinality({k \in 1..j : Eventful(after[k])}) = n
        IN  IF stamps = {} THEN res[1].folder_stamp = NULL
            ELSE /\ res[1].folder_stamp = Some(JoinBlank(after[first]))
                 /\ \A n \in 1..Len(got) :
                       first < LineOf(n) =>
                           SubSeq(Val(got[n].ts), 1, 4) = <<"2", "0">> \o after[first][1]

\* C17: a parse of a log that holds a [data] marker, wherever it stands,
\* returns no event of the narrative form.
C17_GrammarsExclusive ==
    Parsed /\ HasMarker(arg.lines) =>
        \A i \in 1..Len(res[1].rows) : IsColumnarRow(res[1].rows[i])


(***************************************************************************)
(* connect_db on the stores earlier versions of the app left on disk.      *)
(***************************************************************************)
\* What an earlier version wrote in a column it had.
OldValue(col) ==
    CASE col = "ts" -> Some(TsNov1)
      [] col = "raw_dir" -> Some(<<"u">>)
      [] col \in {"m1", "m2", "m3", "has_video", "false_trigger"} -> Some(1)
      [] col \in {"video_abs", "video_rel"} -> Some(Mp4(<<"7">>))
      [] col = "notes" -> Some(<<"n">>)
      [] OTHER -> Some(TsNov3)

OldTable(keys, cols) == [k \in keys |-> [c \in cols |-> OldValue(c)]]

\* Files with any part of the current columns; the event 7 written or not,
\* with or without a review status and a tally row.
OldStores ==
    {[exists |-> TRUE, events_cols |-> ec, status_cols |-> sc,
      events |-> OldTable(ek, ec), status |-> OldTable(sk, sc),
      counts |-> [k \in {<<e, "Chinook", "Up">> : e \in ck} |-> 2]] :
        ec \in SUBSET EventCols, sc \in SUBSET StatusCols,
        ek \in SUBSET {<<"7">>}, sk \in SUBSET {<<"7">>}, ck \in SUBSET {<<"7">>}}

MigrateInit ==
    /\ Idle
    /\ db \in {o \in OldStores : /\ DOMAIN o.status \subseteq DOMAIN o.events
                                 /\ (DOMAIN o.counts = {} \/ DOMAIN o.events # {})}
    /\ arg = <<>>
    /\ res = <<>>

\* connect_db on the file, and the file it leaves
OpenStore ==
    /\ Len(res) < 2
    /\ db' = Migrated(db)
    /\ arg' = IF res = <<>> THEN db ELSE arg
    /\ res' = Append(res, Migrated(db))
    /\ UNCHANGED <<conn, ss, last>>

SpecMigrate == MigrateInit /\ [][OpenStore]_vars

ZeroDefault == {"has_video", "false_trigger"}

\* The table new holds the rows of old, each with its old values and with the
\* default in every column of required that old lacks.
RowsKept(old, cols, new, required) ==
    /\ DOMAIN new = DOMAIN old
    /\ \A k \in DOMAIN old :
          /\ DOMAIN new[k] = cols \cup required
          /\ \A c \in cols : new[k][c] = old[k][c]
          /\ \A c \in required \ cols :
                new[k][c] = IF c \in ZeroDefault THEN Some(0) ELSE NULL

\* C18: opening a store of an older schema adds the missing columns of events
\* and event_status; every row that exists keeps its values and gets the
\* default of each added column, the counts rows are unchanged, and opening
\* the store again changes nothing.
C18_MigrationKeepsData ==
    /\ Len(res) >= 1 =>
          /\ res[1].events_cols = arg.events_cols \cup EventCols
          /\ res[1].status_cols = arg.status_cols \cup StatusCols
          /\ RowsKept(arg.events, arg.events_cols, res[1].events, EventCols)
          /\ RowsKept(arg.status, arg.status_cols, res[1].status, StatusCols)
          /\ res[1].counts = arg.counts
          /\ db = res[1]
    /\ Len(res) = 2 => res[2] = res[1]

C18_Witness ==
    /\ Len(res) = 2
    /\ arg.events_cols = {"raw_dir", "m1"}
    /\ arg.status_cols = {"notes"}
    /\ DOMAIN arg.events # {} /\ DOMAIN arg.status # {} /\ DOMAIN arg.counts # {}
    /\ res[1].events[<<"7">>].has_video = Some(0)
    /\ res[1].events[<<"7">>].m1 = Some(1)
    /\ res[1].status[<<"7">>].notes = Some(<<"n">>)


(***************************************************************************)
(* Undo and Clear.                                                         *)
(***************************************************************************)
Keys == Species \X Movements

\* The count of every key is the same in a and b; the count of a key is what
\* counts.get(key, 0) reads, so an entry of 0 and no entry are the same count.
SameTally(a, b) == \A k \in Keys : DictGet(a, k) = DictGet(b, k)

\* C19: Undo with entries in _actions pops the newest one and lowers the
\* count of that key by 1, not below 0, with every other count as it was;
\* Undo with no entry changes neither the counts nor _actions; Undo right
\* after a species click gives back the counts and the _actions from before
\* the click.
C19_Undo ==
    [][/\ (last'.op = "undo" /\ ss.actions # <<>>) =>
             LET key == ss.actions[Len(ss.actions)]
                 n == DictGet(ss.counts, key) - 1
             IN  /\ ss'.actions = SubSeq(ss.actions, 1, Len(ss.actions) - 1)
                 /\ DictGet(ss'.counts, key) = IF n > 0 THEN n ELSE 0
                 /\ \A k \in Keys \ {key} :
                       DictGet(ss'.counts, k) = DictGet(ss.counts, k)
       /\ (last'.op = "undo" /\ ss.actions = <<>>) =>
             ss'.actions = <<>> /\ ss'.counts = ss.counts
       /\ last'.op = "increment" =>
             /\ last'.counts = ss.counts
             /\ \E key \in Keys :
                   /\ ss'.actions = Append(ss.actions, key)
                   /\ DictGet(ss'.counts, key) = DictGet(ss.counts, key) + 1
       /\ (last.op = "increment" /\ last'.op = "undo") =>
             /\ SameTally(ss'.counts, last.counts)
             /\ ss.actions = Append(ss'.actions, ss.actions[Len(ss.actions)])
      ]_vars

\* Two clicks on different keys, then one Undo: the second click is undone.
C19_Witness ==
    /\ last.op = "undo"
    /\ Len(ss.actions) = 1
    /\ \E k \in Keys : k # ss.actions[1] /\ k \in DOMAIN ss.counts /\ ss.counts[k] = 0
    /\ DictGet(ss.counts, ss.actions[1]) = 1


\* The count rows the file holds for an event.
PersistedTally(d, e) == {k \in DOMAIN d.counts : k[1] = e}

\* C20: Clear leaves no entry in _counts and none in _actions, whatever count
\* rows the store holds for the current event, and writes nothing to the
\* store; a save that follows it leaves the event with no count row and with
\* reviewed_at set.
C20_Clear ==
    [][/\ last'.op = "clear" =>
             ss'.counts = EmptyFcn /\ ss'.actions = <<>> /\ db' = db
       /\ (last.op = "clear" /\ last'.op = "save" /\ last'.ok) =>
             LET e == Val(last'.event_id)
             IN  /\ ss.loaded_event_id = last'.event_id
                 /\ PersistedTally(db', e) = {}
                 /\ e \in DOMAIN db'.status
                 /\ ~IsNull(db'.status[e].reviewed_at)
      ]_vars

\* Clear has run on an event that has count rows in the store.
C20_Witness ==
    /\ last.op = "clear"
    /\ ~IsNull(ss.loaded_event_id)
    /\ PersistedTally(db, Val(ss.loaded_event_id)) # {}
    /\ ss.counts = EmptyFcn
    /\ ss.actions = <<>>


(***************************************************************************)
(* The review loop.                                                        *)
(***************************************************************************)
InSeq(x, q) == \E i \in 1..Len(q) : q[i] = x

\* C21: after a Save & Next of event e that went through, e has a reviewed_at
\* that is not null and is not in the queue of the session; the queue is what
\* get_unreviewed_event_ids reads from the store, the current event is the
\* head of the queue, or none when the queue is empty, and the run that
\* follows has loaded that event from the store.
C21_SaveAdvances ==
    [][(last'.op = "save" /\ last'.ok) =>
          LET e == Val(last'.event_id)
          IN  /\ e \in DOMAIN db'.status
              /\ ~IsNull(db'.status[e].reviewed_at)
              /\ ~InSeq(e, ss'.queue)
              /\ ss'.queue = GetUnreviewedEventIds(ConnectDb(db'))
              /\ ss'.current_event_id = QueueHead(ss'.queue)
              /\ ss'.loaded_event_id = ss'.current_event_id
              /\ Fresh(ss', ConnectDb(db'))
      ]_vars

\* A save with clicks went through and another event is now loaded.
C21_Witness ==
    /\ SaveDone
    /\ last.counts # EmptyFcn
    /\ ss.queue # <<>>
    /\ ss.loaded_event_id = Some(ss.queue[1])
    /\ ss.loaded_event_id # last.event_id


(***************************************************************************)
(* parse_log on event lines whose measurements are integers or not.        *)
(***************************************************************************)
MeasureTokens == {<<"1">>, <<"-", "2">>, <<"x">>}

MeasureLine(a, b, c) ==
    << <<"7">>, a, b, <<"1", "1">>, <<"3">>, <<"1", "4">>, <<"3", "0">>, <<"+">>, c >>

MeasureLines == {MeasureLine(a, b, c) : a, b, c \in MeasureTokens}

MeasureInit ==
    /\ Idle
    /\ db = NoStore
    /\ arg \in [lines : {<<MarkerLine>> \o ls : ls \in SeqsUpTo(MeasureLines, 1, 2)},
                now_year : {NowYear}]
    /\ res = <<>>

SpecMeasure == MeasureInit /\ [][ParseOnce]_vars

\* C22: a columnar line with 9 tokens or more and an integer month, day, hour
\* and minute yields an event, and each of m1, m2, m3 is null exactly when its
\* own token is no integer; a token that is an integer gives its value,
\* whatever the other measurement tokens of the line are.
C22_MeasurementsIndependent ==
    Parsed =>
        LET after == AfterMarker(arg.lines)
            rows == res[1].rows
        IN  /\ Len(rows) = Len(after)
            /\ \A i \in 1..Len(after) :
                  /\ IsNull(rows[i].m1) <=> ~IntegerText(after[i][2])
                  /\ IsNull(rows[i].m2) <=> ~IntegerText(after[i][3])
                  /\ IsNull(rows[i].m3) <=> ~IntegerText(after[i][9])
                  /\ IntegerText(after[i][2]) => rows[i].m1 = ParseInt(after[i][2])
                  /\ IntegerText(after[i][3]) => rows[i].m2 = ParseInt(after[i][3])
                  /\ IntegerText(after[i][9]) => rows[i].m3 = ParseInt(after[i][9])


(***************************************************************************)
(* Which clip an event is joined to.                                       *)
(***************************************************************************)
\* The places of the walk whose file has the stem eid.
ExactClips(walk, eid) == {j \in 1..Len(walk) : Strip(PathStem(walk[j])) = eid}

MinOf(S) == CHOOSE x \in S : \A y \in S : x <= y

\* C23: when some clip of the walk has a stem equal to the id of the event, the
\* event is joined to the first such clip of the walk, whatever the order of
\* the walk; a clip whose stem equals the id only after its zeros are stripped
\* is used only when no clip has the exact stem.
C23_DirectMatchFirst ==
    last.op = "index" /\ last.ok =>
        \A i \in 1..Len(arg.parsed) :
            LET eid == arg.parsed[i].event_id
                exact == ExactClips(arg.walk, eid)
            IN  exact # {} =>
                   db.events[eid].video_abs = Some(PathText(arg.walk[MinOf(exact)], FALSE))


(***************************************************************************)
(* upsert_events, run up to MaxReloads times on stores with and without    *)
(* events, each time with a batch of up to MaxBatch rows.                  *)
(***************************************************************************)
UpsertIds == {<<"7">>, <<"1", "0">>}

\* The rows build_event_rows hands over when no clip is indexed.
UpsertRows ==
    {BuildOneRow(ParsedRow(e, ts), EmptyFcn, VideoRoot) :
        e \in UpsertIds, ts \in {TsNov1, TsNov3}}

UpsertBatches == SeqsUpTo(UpsertRows, 1, MaxBatch)

\* A store with the events 7 and 10, the event 7 reviewed.
ReviewedStore ==
    Commit(Migrated(NoStore),
           UpsertStatus(UpsertEvents(ConnectDb(NoStore),
                                     <<BuildOneRow(ParsedRow(<<"7">>, TsNov1), EmptyFcn, VideoRoot),
                                       BuildOneRow(ParsedRow(<<"1", "0">>, TsNov1), EmptyFcn, VideoRoot)>>),
                        <<"7">>, "n1", 0, 1))

UpsertInit ==
    /\ Idle
    /\ db \in {NoStore, LegacyStore, ReviewedStore}
    /\ arg = <<>>
    /\ res = <<>>

\* connect_db, then upsert_events(conn, batch) with its commit; res keeps the
\* files as they were before each call.
UpsertOnce(batch) ==
    /\ Len(res) < MaxReloads
    /\ db' = Commit(Migrated(db), UpsertEvents(ConnectDb(db), batch))
    /\ arg' = batch
    /\ res' = Append(res, db)
    /\ UNCHANGED <<conn, ss, last>>

SpecUpsert == UpsertInit /\ [][\E batch \in UpsertBatches : UpsertOnce(batch)]_vars

BatchIds(batch) == {batch[i].event_id : i \in 1..Len(batch)}

\* The last row of the batch that carries the id e.
LastRowOf(batch, e) ==
    batch[MaxOf({i \in 1..Len(batch) : batch[i].event_id = e})]

EventFields == {"ts", "raw_dir", "m1", "m2", "m3", "video_abs", "video_rel", "has_video"}

\* C24: after upsert_events(batch) every id of the batch is stored with the
\* fields of the last row of the batch that carries it, every event stored
\* before that is not in the batch is stored as it was, and over the calls
\* the set of stored ids never loses an id.
C24_UpsertOverwrites ==
    Len(res) >= 1 =>
        LET old == Migrated(res[Len(res)])
        IN  /\ DOMAIN db.events = DOMAIN old.events \cup BatchIds(arg)
            /\ \A e \in BatchIds(arg) :
                  \A f \in EventFields : db.events[e][f] = LastRowOf(arg, e)[f]
            /\ \A e \in DOMAIN old.events \ BatchIds(arg) :
                  db.events[e] = old.events[e]
            /\ \A k \in 1..Len(res) : DOMAIN res[k].events \subseteq DOMAIN db.events

\* A second batch with two rows for the event 10 that differ in ts was stored
\* over a store that holds the event 7.
C24_Witness ==
    /\ Len(res) = 2
    /\ Len(arg) = 2
    /\ arg[1].event_id = <<"1", "0">> /\ arg[2].event_id = <<"1", "0">>
    /\ arg[1].ts # arg[2].ts
    /\ <<"7">> \in DOMAIN res[2].events
    /\ <<"1", "0">> \in DOMAIN res[2].events
    /\ db.events[<<"1", "0">>].ts = arg[2].ts


(***************************************************************************)
(* Invariants of the session and of the review status.                     *)
(***************************************************************************)
\* How often the key is in the undo stack.
Occurrences(actions, key) == Cardinality({i \in 1..Len(actions) : actions[i] = key})

\* Every count of s is the count of base plus the clicks in _actions.
OnBaseline(s, base) ==
    \A k \in Keys : DictGet(s.counts, k) = DictGet(base, k) + Occurrences(s.actions, k)

\* The actions after which the load block has read the event from the store.
Loads(l) ==
    \/ l.op \in {"skip", "resume"}
    \/ l.op = "load_selected" /\ ~IsNull(l.event_id)
    \/ l.op \in {"back", "index", "save"} /\ l.ok

\* C25: while an event is loaded, every count of the session is the count of
\* its baseline plus the occurrences of the key in _actions; the baseline is
\* the tally load_counts read from the store, and the empty tally from a Clear
\* on, and no other action moves it.  So no count is below the occurrences of
\* its key in _actions, and Undo never meets a count of 0.
C25_CountsOnBaseline ==
    /\ [](~IsNull(ss.loaded_event_id) =>
            /\ \/ OnBaseline(ss, LoadCounts(ConnectDb(db), Val(ss.loaded_event_id)))
               \/ OnBaseline(ss, EmptyFcn)
            /\ \A k \in Keys : DictGet(ss.counts, k) >= Occurrences(ss.actions, k))
    /\ [][/\ (Loads(last') /\ ~IsNull(ss'.loaded_event_id)) =>
                OnBaseline(ss', LoadCounts(ConnectDb(db'), Val(ss'.loaded_event_id)))
          /\ last'.op = "clear" => OnBaseline(ss', EmptyFcn)
          /\ (~Loads(last') /\ last'.op # "clear" /\ ~IsNull(ss.loaded_event_id)) =>
                /\ ss'.loaded_event_id = ss.loaded_event_id
                /\ \A k \in Keys :
                      DictGet(ss'.counts, k) - Occurrences(ss'.actions, k)
                          = DictGet(ss.counts, k) - Occurrences(ss.actions, k)
         ]_vars

\* A click on an event whose stored tally holds another key.
C25_Witness ==
    /\ last.op = "increment"
    /\ ~IsNull(ss.loaded_event_id)
    /\ LoadCounts(ConnectDb(db), Val(ss.loaded_event_id)) # EmptyFcn
    /\ OnBaseline(ss, LoadCounts(ConnectDb(db), Val(ss.loaded_event_id)))
    /\ ss.actions # <<>>


(***************************************************************************)
(* The review loop on a project whose event ids start with digits and go   *)
(* on with letters.                                                        *)
(***************************************************************************)
QueueIdList == << <<"1", "2", "a", "b", "c">>, <<"5", "a", "b", "c">> >>
QueueIds == {QueueIdList[i] : i \in 1..Len(QueueIdList)}

QueueProjects ==
    [has_log : {TRUE},
     parsed : {RowsOf(QueueIdList, S) : S \in SUBSET QueueIds},
     walk : {<<>>},
     lib : {VideoRoot}]

QueueInit ==
    /\ Idle
    /\ db = NoStore
    /\ arg = <<>>
    /\ res = <<>>

QueueNext ==
    \/ \E project \in QueueProjects : IndexReload(project)
    \/ \E selected \in {NULL} \cup {Some(e) : e \in QueueIds} : LoadSelected(selected)
    \/ Resume
    \/ \E t \in Times, fail \in FailPoints : SaveNext(t, fail)
    \/ Back
    \/ Skip

SpecQueue == QueueInit /\ [][QueueNext]_vars

\* The store reads the event e as not reviewed.
Unreviewed(d, e) ==
    /\ e \in DOMAIN d.events
    /\ IsNull(LeftJoinStatus(ConnectDb(d), e).reviewed_at)

\* C26: after any sequence of Index / Reload, Save & Next, Skip, Back, Load
\* selected and Resume, every id of the queue of the session is a stored event
\* that the store reads as not reviewed, the queue is in the canonical order,
\* and the session is without a current event after the queue refresh of a
\* run only when get_unreviewed_event_ids is empty; an event that was not
\* reviewed when it was skipped is not reviewed after the Skip.
C26_QueueInvariant ==
    /\ [](/\ \A i \in 1..Len(ss.queue) : Unreviewed(db, ss.queue[i])
          /\ \A i, j \in 1..Len(ss.queue) :
                i < j => ~MustPrecede(ConnectDb(db), ss.queue[j], ss.queue[i])
          /\ (ss.ready /\ IsNull(ss.current_event_id)) =>
                GetUnreviewedEventIds(ConnectDb(db)) = <<>>)
    /\ [][(last'.op = "skip" /\ Unreviewed(db, Val(last'.event_id))) =>
             Unreviewed(db', Val(last'.event_id))]_vars


\* The events with a status row whose reviewed_at is not null.
ReviewedIds(d) ==
    {e \in DOMAIN Migrated(d).status : ~IsNull(Migrated(d).status[e].reviewed_at)}

\* C27: an event that has a reviewed_at keeps its status row and a reviewed_at
\* that is not null through every action, so the number of reviewed events
\* never goes down.
C27_ReviewedStays ==
    [][/\ ReviewedIds(db) \subseteq ReviewedIds(db')
       /\ Cardinality(ReviewedIds(db)) <= Cardinality(ReviewedIds(db'))]_vars

\* A save went through with every event of the store reviewed, two of them.
C27_Witness ==
    /\ SaveDone
    /\ Cardinality(ReviewedIds(db)) = 2
    /\ ReviewedIds(db) = DOMAIN db.events


(***************************************************************************)
(* The review loop from an Index / Reload on: the operator counts, edits   *)
(* the notes and presses Save & Next; no save fails, the project is not    *)
(* indexed again, and no other event is navigated to.                      *)
(***************************************************************************)
LoopInit ==
    /\ Idle
    /\ db \in InitialStores \cup {ReviewedStore}
    /\ arg = <<>>
    /\ res = <<>>

LoopIndex == last.op = "init" /\ \E project \in MainProjects : IndexReload(project)

LoopSave == \E t \in Times : SaveNext(t, "none")

LoopNext ==
    \/ LoopIndex
    \/ LoopSave
    \/ \E text \in NotesTexts : SetNotes(text)
    \/ \E species \in Species, mv \in Movements : Increment(species, mv)
    \/ Undo
    \/ Clear

\* The operator keeps pressing Save & Next: the button is there in every run
\* that draws the review widgets, and a run with the button pressed comes.
SpecLoop == LoopInit /\ [][LoopNext]_vars /\ WF_vars(LoopSave)

UnreviewedCount(d) == Len(GetUnreviewedEventIds(ConnectDb(d)))

AllReviewed ==
    /\ ss.ready
    /\ IsNull(ss.current_event_id)
    /\ ss.queue = <<>>
    /\ UnreviewedCount(db) = 0

\* C28: from an Index / Reload on, every Save & Next that goes through saves
\* the head of the queue and takes exactly one event off what
\* get_unreviewed_event_ids returns; the session has a current event as long
\* as that list is not empty; so with n events in the list after the index,
\* the operator who keeps pressing Save & Next comes, with the n-th save and
\* no sooner, to the state with no current event and an empty queue.
C28_LoopTerminates ==
    /\ [](ss.ready => (IsNull(ss.current_event_id) <=> UnreviewedCount(db) = 0))
    /\ [][last'.op = "save" =>
             /\ last'.ok
             /\ ss.queue # <<>> /\ last'.event_id = Some(ss.queue[1])
             /\ UnreviewedCount(db') = UnreviewedCount(db) - 1]_vars
    /\ [][last'.op # "save" /\ last'.op # "index" =>
             UnreviewedCount(db') = UnreviewedCount(db)]_vars
    /\ ((last.op = "index" /\ last.ok) ~> AllReviewed)

\* Two saves after the index, and no event is left to review.
C28_Witness ==
    /\ AllReviewed
    /\ SaveDone
    /\ Cardinality(ReviewedIds(db)) = 2
    /\ DOMAIN db.counts # {}

====
